---- MODULE Spec2Model ----
(***************************************************************************)
(* Batch-retry-resume workflow of the sentence scripts ai_explain.py,      *)
(* ai_yes_no.py and the retrying client of ai_match.py.                    *)
(*                                                                         *)
(* Conventions.                                                            *)
(*  - A text (Python str) is a sequence of one-character strings.  The     *)
(*    non-ASCII column names and the full-width punctuation marks are     *)
(*    written as single ASCII-named symbols, the backquote as BQ.          *)
(*  - An optional value (Python None or a str) is a record                 *)
(*    [some |-> BOOLEAN, text |-> text]; None has some = FALSE.            *)
(*  - Python lists are sequences; Python position p (0-based) is position  *)
(*    p + 1 here.  A table is the sequence of rows that csv.reader yields, *)
(*    header first; a row is a sequence of cells; a cell is a text.  On    *)
(*    this alphabet (no carriage return) csv.writer followed by csv.reader *)
(*    returns the rows written, so a file is modelled by its rows; an      *)
(*    empty or missing file is the empty sequence of rows.                 *)
(***************************************************************************)
EXTENDS Integers, Sequences, FiniteSets, TLC

-----------------------------------------------------------------------------
(* Texts and optional values                                               *)

NL == "\n"
SP == " "
BQ == "BQ"
WhiteSpace == {SP, NL}

None == [some |-> FALSE, text |-> <<>>]
Some(t) == [some |-> TRUE, text |-> t]

\* Python truthiness of an optional str: neither None nor "".
Truthy(r) == r.some /\ r.text # <<>>

\* s[a..b] of a text, empty when a > b.
Slice(s, a, b) == IF a > b THEN <<>> ELSE SubSeq(s, a, b)

RECURSIVE LStrip(_)
LStrip(s) ==
    IF s = <<>> THEN <<>>
    ELSE IF Head(s) \in WhiteSpace THEN LStrip(Tail(s)) ELSE s

RECURSIVE RStrip(_)
RStrip(s) ==
    IF s = <<>> THEN <<>>
    ELSE IF s[Len(s)] \in WhiteSpace THEN RStrip(SubSeq(s, 1, Len(s) - 1)) ELSE s

\* str.strip()
Strip(s) == RStrip(LStrip(s))

\* str.split('\n'): the pieces between newlines, empty pieces kept.
RECURSIVE SplitFrom(_, _)
SplitFrom(s, cur) ==
    IF s = <<>> THEN <<cur>>
    ELSE IF Head(s) = NL THEN <<cur>> \o SplitFrom(Tail(s), <<>>)
    ELSE SplitFrom(Tail(s), Append(cur, Head(s)))

SplitLines(s) == SplitFrom(s, <<>>)

\* '\n'.join(lines)
RECURSIVE JoinLines(_)
JoinLines(lines) ==
    IF lines = <<>> THEN <<>>
    ELSE IF Len(lines) = 1 THEN lines[1]
    ELSE lines[1] \o <<NL>> \o JoinLines(Tail(lines))

\* Variant: the lines are stripped but the blank ones are kept.
StripNonBlank_KeepBlank(lines) == [k \in 1..Len(lines) |-> Strip(lines[k])]

\* [line.strip() for line in lines if line.strip()]
RECURSIVE StripNonBlank(_)
StripNonBlank(lines) ==
    IF lines = <<>> THEN <<>>
    ELSE IF Strip(Head(lines)) = <<>> THEN StripNonBlank(Tail(lines))
    ELSE <<Strip(Head(lines))>> \o StripNonBlank(Tail(lines))

\* split_result_lines(text) -> (judgment, explanation), both None when no
\* line survives.
split_result_lines(text) ==
    LET lines == StripNonBlank(SplitLines(Strip(text)))
    IN  IF lines = <<>> THEN [judgment |-> None, explanation |-> None]
        ELSE [judgment |-> Some(lines[1]),
              explanation |-> IF Len(lines) > 1 THEN Some(JoinLines(Tail(lines)))
                              ELSE Some(<<>>)]

\* (x or "") of an optional str.
OrEmpty(r) == IF Truthy(r) THEN r.text ELSE <<>>

\* Does text s carry the delimiter d at position p?
HasAt(s, p, d) == p + Len(d) - 1 <= Len(s) /\ SubSeq(s, p, p + Len(d) - 1) = d

\* The least q >= from such that s carries d at q and s[from..q-1] holds no
\* newline ('.' does not match a newline); 0 when there is none.
RECURSIVE FindClose(_, _, _)
FindClose(s, from, d) ==
    IF from + Len(d) - 1 > Len(s) THEN 0
    ELSE IF HasAt(s, from, d) THEN from
    ELSE IF s[from] = NL THEN 0
    ELSE FindClose(s, from + 1, d)

\* The delimiter of delims (tried in order) that opens a match at p, as
\* <<delimiter, position of its closing occurrence>>; <<>> when none does.
RECURSIVE MatchAt(_, _, _)
MatchAt(s, p, delims) ==
    IF delims = <<>> THEN <<>>
    ELSE LET d == Head(delims)
             q == IF HasAt(s, p, d) THEN FindClose(s, p + Len(d), d) ELSE 0
         IN  IF q > 0 THEN <<d, q>> ELSE MatchAt(s, p, Tail(delims))

\* re.sub(r'(d1|d2|..)(.*?)\1', r'\2', s) scanning from position p.
RECURSIVE SubFrom(_, _, _)
SubFrom(s, p, delims) ==
    IF p > Len(s) THEN <<>>
    ELSE LET m == MatchAt(s, p, delims)
         IN  IF m = <<>> THEN <<s[p]>> \o SubFrom(s, p + 1, delims)
             ELSE Slice(s, p + Len(m[1]), m[2] - 1)
                  \o SubFrom(s, m[2] + Len(m[1]), delims)

\* clean_formatting(text): strips **..** / __..__, then *..* / _.._, then the backquoted spans.
clean_formatting(text) ==
    LET t1 == SubFrom(text, 1, << <<"*", "*">>, <<"_", "_">> >>)
        t2 == SubFrom(t1, 1, << <<"*">>, <<"_">> >>)
    IN  SubFrom(t2, 1, << <<BQ>> >>)

-----------------------------------------------------------------------------
(* Tables                                                                  *)

\* The column names, each written as one symbol: the judgment column and
\* the explanation column of ai_explain, the sentence column and the
\* explanation column of ai_yes_no's default header, and a column of the
\* input that neither script names.
col_ai_panduan == <<"ai_panduan">>
col_ai_lijie == <<"ai_lijie">>
col_yuanju == <<"yuanju">>
col_AI_lijie == <<"AI_lijie">>
col_other == <<"other">>

\* The sentence terminators: the full-width stop, exclamation mark and
\* question mark and their ASCII counterparts; the first is appended to a
\* sentence that ends in none of them.
zh_stop == "zh_stop"

\* Variant: the ASCII marks are not recognized.
Terminators_FullWidthOnly == {zh_stop, "zh_excl", "zh_quest"}

Terminators == {zh_stop, ".", "zh_excl", "!", "zh_quest", "?"}

\* The elements of a sequence.
Range(q) == {q[k] : k \in 1..Len(q)}

\* list.index(x): the first position holding x.
IndexOf(q, x) == CHOOSE k \in 1..Len(q) : q[k] = x /\ \A j \in 1..(k - 1) : q[j] # x

\* Variant: a missing column is put in front of the header.
EnsureColumn_InFront(header, name) ==
    IF name \in Range(header) THEN header ELSE <<name>> \o header

\* if name not in header: header.append(name)
EnsureColumn(header, name) ==
    IF name \in Range(header) THEN header ELSE Append(header, name)

\* Variant: the row is brought to exactly n cells, a longer row is cut.
PadTo_Exact(row, n) == [c \in 1..n |-> IF c <= Len(row) THEN row[c] ELSE <<>>]

\* Variant: no cell is appended.
PadTo_None(row, n) == row

\* while len(row) < n: row.append("")
PadTo(row, n) ==
    IF Len(row) >= n THEN row ELSE row \o [k \in 1..(n - Len(row)) |-> <<>>]

\* The outcome of an operation on a file: the rows to write, or the
\* exception raised before the file is opened for writing.
Rows(t) == [err |-> "none", rows |-> t]
Fails(e) == [err |-> e, rows |-> <<>>]

\* The loop of ai_explain.write_results_to_csv over results[i..]: a truthy
\* result goes to data_rows[offset + i] (Python position offset + i - 1);
\* the row is padded to the header's width first, then the two cells named
\* by the header are assigned.  A row position past the end of data_rows
\* raises IndexError.
RECURSIVE ExplainWriteLoop(_, _, _, _, _)
ExplainWriteLoop(header, data_rows, results, offset, i) ==
    IF i > Len(results) THEN Rows(<<header>> \o data_rows)
    ELSE IF ~Truthy(results[i])
    THEN ExplainWriteLoop(header, data_rows, results, offset, i + 1)
    ELSE LET row_index == offset + i
             parsed == split_result_lines(results[i].text)
         IN  IF row_index > Len(data_rows) THEN Fails("IndexError")
             ELSE LET padded == PadTo(data_rows[row_index], Len(header))
                      withJ == [padded EXCEPT
                                  ![IndexOf(header, col_ai_panduan)] = OrEmpty(parsed.judgment)]
                      withE == [withJ EXCEPT
                                  ![IndexOf(header, col_ai_lijie)] = OrEmpty(parsed.explanation)]
                  IN  ExplainWriteLoop(header,
                                       [data_rows EXCEPT ![row_index] = withE],
                                       results, offset, i + 1)

\* ai_explain.write_results_to_csv(csv_path, results, offset) on a file
\* holding table: reader[0] of an empty file raises IndexError.
explain_write_results_to_csv(table, results, offset) ==
    IF table = <<>> THEN Fails("IndexError")
    ELSE LET header == EnsureColumn(EnsureColumn(table[1], col_ai_panduan), col_ai_lijie)
         IN  ExplainWriteLoop(header, Tail(table), results, offset, 1)

\* The body of the retry loop of ai_explain.main for one result that is not
\* None, of the sentence with index idx: the row idx - 1 of data_rows is
\* padded to the header's width, then the header gets its missing columns,
\* then the two cells are assigned (IndexError when the row is shorter than
\* the column's position).
explain_retry_write(table, idx, result) ==
    IF table = <<>> THEN Fails("IndexError")
    ELSE LET header0 == table[1]
             data_rows == Tail(table)
             parsed == split_result_lines(result.text)
         IN  IF idx > Len(data_rows) THEN Fails("IndexError")
             ELSE LET padded == PadTo(data_rows[idx], Len(header0))
                      header == EnsureColumn(EnsureColumn(header0, col_ai_panduan),
                                             col_ai_lijie)
                      pj == IndexOf(header, col_ai_panduan)
                      pe == IndexOf(header, col_ai_lijie)
                  IN  IF pj > Len(padded) \/ pe > Len(padded) THEN Fails("IndexError")
                      ELSE Rows(<<header>> \o
                                [data_rows EXCEPT ![idx] =
                                   [padded EXCEPT ![pj] = OrEmpty(parsed.judgment),
                                                  ![pe] = OrEmpty(parsed.explanation)]])

\* while len(rows) <= idx: rows.append([""] * len(rows[0])), with rows
\* holding the header at Python position 0.
RECURSIVE GrowRows(_, _)
GrowRows(rows, idx) ==
    IF Len(rows) > idx THEN rows
    ELSE GrowRows(Append(rows, [k \in 1..Len(rows[1]) |-> <<>>]), idx)

\* The loop of ai_yes_no.write_results_to_csv over indexed_results[i..]:
\* rows[idx] (Python position idx, the header being rows[0]) is created
\* when missing, padded to two cells, and gets the sentence and the result.
RECURSIVE YesNoWriteLoop(_, _, _)
YesNoWriteLoop(rows, indexed_results, i) ==
    IF i > Len(indexed_results) THEN rows
    ELSE LET idx == indexed_results[i].idx
             grown == GrowRows(rows, idx)
             padded == PadTo(grown[idx + 1], 2)
             row == [padded EXCEPT ![1] = indexed_results[i].sentence,
                                   ![2] = OrEmpty(indexed_results[i].result)]
         IN  YesNoWriteLoop([grown EXCEPT ![idx + 1] = row], indexed_results, i + 1)

\* ai_yes_no.write_results_to_csv(csv_path, indexed_results) on a file
\* holding table (empty when the file is missing or empty): a default
\* header when there is none, a second header cell when it has fewer than
\* two.  csv.writer writes a None result as the empty cell.
yes_no_write_results_to_csv(table, indexed_results) ==
    LET rows0 == IF table = <<>> THEN << <<col_yuanju, col_AI_lijie>> >> ELSE table
        rows1 == IF Len(rows0[1]) < 2
                 THEN [rows0 EXCEPT ![1] = Append(rows0[1], col_AI_lijie)]
                 ELSE rows0
    IN  Rows(YesNoWriteLoop(rows1, indexed_results, 1))

-----------------------------------------------------------------------------
(* Bounds and input sets                                                   *)

\* Largest value of the retries argument that is explored.
MaxRetries == 3

\* Largest number of prompts handed to one process_all_prompts call.
MaxPrompts == 3

\* max_workers, the width of the ProcessPoolExecutor.
max_workers == 2

\* Largest number of data rows of an input table.
MaxRows == 3

\* Largest length of a response text and of a prompt template handed to a
\* function called on its own.
MaxText == 4

\* batch_size of main: 10 in the source, scaled down so that a table of
\* MaxRows rows makes more than one batch.
batch_size == 2

\* The headers of the input tables: the sentence column alone, and with a
\* foreign column and one of the two result columns already there.
Headers == { <<col_yuanju>>, <<col_yuanju, col_other, col_ai_lijie>> }

\* The data rows of the input tables: an empty first cell (a row the loader
\* skips), a sentence without terminator, and a sentence with terminator
\* followed by three filled cells.
RowChoices ==
    { << <<>> >>,
      << <<"s">> >>,
      << <<"t", ".">>, <<"o">>, <<"o">>, <<"o">> >> }

\* The input tables: a header and up to MaxRows data rows.
Tables ==
    { <<h>> \o rows : h \in Headers,
                      rows \in UNION { [1..n -> RowChoices] : n \in 0..MaxRows } }

\* The response texts the remote call may return: "", "Y\ne" and "*N*".
Responses == { <<>>, <<"Y", NL, "e">>, <<"*", "N", "*">> }

\* The scripts that define process_prompt_with_retry.
Scripts == {"ai_explain", "ai_yes_no", "ai_match"}

\* The scripts with a batch loop (process_all_prompts and main).
BatchScripts == {"ai_explain", "ai_yes_no"}

\* Error classes of the remote call: google.genai.errors.ServerError and
\* any other exception.
ErrorClasses == {"ServerError", "OtherError"}

VARIABLES
    \* process_prompt_with_retry, one call
    r_script,     \* the script whose definition runs
    r_retries,    \* the retries argument
    r_pc,         \* "jitter", "call", "delay", "returned", "raised"
    r_i,          \* the loop variable i (attempts finished so far)
    r_calls,      \* what each call_gemini_api attempt did, in order
    r_log,        \* the retry messages printed, as <<i + 1, retries>>
    r_sleeps,     \* number of time.sleep(delay) calls made
    r_ret,        \* the value returned, once r_pc = "returned"
    \* process_all_prompts, one call
    d_script,     \* the script whose definition runs
    d_n,          \* len(prompts)
    d_fut,        \* the futures, in submission order: [st, out]
    d_worker,     \* the task each pool worker runs (0: idle)
    d_results,    \* the results list
    d_seen,       \* the futures as_completed has yielded so far, in order
    d_pc,         \* "pool", "returned", "aborted"
    \* one persist call on a file
    w_table,      \* the rows of the file before the call
    w_call,       \* the call made: [op, ...arguments], op = "none" before it
    w_out,        \* its outcome: the rows written, or the exception
    \* main
    m_script,          \* the script whose main runs
    csv,               \* the rows of the file at CSV_FILE_PATH
    out_csv,           \* the rows of results/ai_judgment.csv (ai_yes_no)
    failed_txt,        \* the lines of results/failed.txt
    success_txt,       \* the blocks of results/success_results.txt
    indexed_sentences, \* the loaded (idx, sentence) pairs
    current_index,
    pc,                \* where main is
    results,           \* results of the batch's dispatch
    retry_results,     \* results of the batch's retry dispatch
    retry_i,           \* position in retry_results of the retry write loop
    pending,           \* rows computed for a file opened for writing
    csv0,              \* history: the result file when main started
    committed,         \* history: the result file when the batch started
    owed,              \* history: persist calls of the batch not yet completed
    attempted,         \* history: idx of the sentences dispatched so far
    succeeded,         \* history: idx of the sentences with a successful result
    batches,           \* history: the batches cut so far, in order
    dispatched,        \* history: the sentence lists whose prompts were handed
                       \* to process_all_prompts for the current batch
    prompted,          \* history: the input() prompts of the current batch
                       \* and whether the answer was y
    \* one call of a function without side effects
    f_call,       \* the call made: [op, ...arguments], op = "none" before it
    f_ret         \* what it returned or raised

retryVars == <<r_script, r_retries, r_pc, r_i, r_calls, r_log, r_sleeps, r_ret>>
dispVars == <<d_script, d_n, d_fut, d_worker, d_results, d_seen, d_pc>>

writeVars == <<w_table, w_call, w_out>>
mainVars == <<m_script, csv, out_csv, failed_txt, success_txt, indexed_sentences,
              current_index, pc, results, retry_results, retry_i, pending,
              csv0, committed, owed, attempted, succeeded, batches, dispatched,
              prompted>>
callVars == <<f_call, f_ret>>

\* What the steps of one operation leave alone: the state of the others.
notRetry == <<dispVars, writeVars, mainVars, callVars>>
notDisp == <<retryVars, writeVars, mainVars, callVars>>
notWrite == <<retryVars, dispVars, mainVars, callVars>>
notMain == <<retryVars, dispVars, writeVars, callVars>>
notCall == <<retryVars, dispVars, writeVars, mainVars>>

-----------------------------------------------------------------------------
(* process_prompt_with_retry                                               *)

\* The except clause: ai_explain and ai_yes_no catch ServerError only,
\* ai_match catches Exception.
Caught(scr, err) == err = "ServerError" \/ scr = "ai_match"

RetryInit ==
    /\ r_script \in Scripts
    /\ r_retries \in 1..MaxRetries
    /\ r_pc = "jitter"
    /\ r_i = 0
    /\ r_calls = <<>>
    /\ r_log = <<>>
    /\ r_sleeps = 0
    /\ r_ret = None

\* time.sleep(random.uniform(1, 2)) before the first attempt.
RetryJitter ==
    /\ r_pc = "jitter"
    /\ r_pc' = "call"
    /\ UNCHANGED <<r_script, r_retries, r_i, r_calls, r_log, r_sleeps, r_ret, notRetry>>

\* call_gemini_api returns a text: the function returns it.
RetryCallReturns ==
    /\ r_pc = "call"
    /\ \E t \in Responses :
         /\ r_ret' = Some(t)
         /\ r_calls' = Append(r_calls, "ok")
    /\ r_pc' = "returned"
    /\ UNCHANGED <<r_script, r_retries, r_i, r_log, r_sleeps, notRetry>>

\* call_gemini_api raises: a caught error prints the retry message and goes
\* on to the delay, any other error leaves the function.
RetryCallRaises ==
    /\ r_pc = "call"
    /\ \E e \in ErrorClasses :
         /\ r_calls' = Append(r_calls, e)
         /\ IF Caught(r_script, e)
            THEN /\ r_log' = Append(r_log, <<r_i + 1, r_retries>>)
                 /\ r_pc' = "delay"
            ELSE /\ r_log' = r_log
                 /\ r_pc' = "raised"
    /\ UNCHANGED <<r_script, r_retries, r_i, r_sleeps, r_ret, notRetry>>

\* time.sleep(delay), then the next iteration of range(retries) or, when the
\* range is used up, return None.
RetryDelay ==
    /\ r_pc = "delay"
    /\ r_sleeps' = r_sleeps + 1
    /\ r_i' = r_i + 1
    /\ r_pc' = IF r_i + 1 < r_retries THEN "call" ELSE "returned"
    /\ r_ret' = None
    /\ UNCHANGED <<r_script, r_retries, r_calls, r_log, notRetry>>

RetryNext == RetryJitter \/ RetryCallReturns \/ RetryCallRaises \/ RetryDelay

RetryIdle ==
    /\ r_script = "ai_explain"
    /\ r_retries = 1
    /\ r_pc = "idle"
    /\ r_i = 0
    /\ r_calls = <<>>
    /\ r_log = <<>>
    /\ r_sleeps = 0
    /\ r_ret = None

-----------------------------------------------------------------------------
(* process_all_prompts                                                     *)

\* What a worker's process_prompt_with_retry call ends with: a returned
\* text, a returned None (retries used up) or a raised exception (an error
\* the except clause does not catch).
Returned(v) == [kind |-> "ret", val |-> v]
Raised == [kind |-> "raise", val |-> None]
Outcomes == {Returned(Some(t)) : t \in Responses} \cup {Returned(None), Raised}

\* The exception class the body of the collector's try block raises for a
\* finished future, "none" when it raises nothing: future.result() re-raises
\* the worker's exception; in ai_explain clean_formatting(None) raises
\* TypeError inside re.sub.
CollectError(scr, out) ==
    IF out.kind = "raise" THEN "OtherError"
    ELSE IF scr = "ai_explain" /\ ~out.val.some THEN "TypeError"
    ELSE "none"

\* Variant: except ServerError, as in process_prompt_with_retry.
CollectorCatches_ServerErrorOnly(err) == err = "ServerError"

\* except Exception: every exception class is caught per task.
CollectorCatches(err) == err \in {"ServerError", "OtherError", "TypeError"}

\* The value stored into the slot when the try block raises nothing:
\* ai_explain stores clean_formatting(result), ai_yes_no stores
\* result.strip() if result else None.
StoredValue(scr, out) ==
    IF scr = "ai_explain" THEN Some(clean_formatting(out.val.text))
    ELSE IF Truthy(out.val) THEN Some(Strip(out.val.text)) ELSE None

\* The slot after the collector handled a future with outcome out: on an
\* exception ai_explain leaves the slot as it is, ai_yes_no assigns None.
SlotAfter(scr, old, out) ==
    IF CollectError(scr, out) = "none" THEN StoredValue(scr, out)
    ELSE IF scr = "ai_explain" THEN old ELSE None

\* Variant: the results are stored in the order the futures are yielded.
SlotOf_CompletionOrder(i, seen) == Len(seen) + 1

\* future_to_index[future]: the submission position of the future.
SlotOf(i, seen) == i

\* The queued task a free worker takes next: the call queue is first in,
\* first out.
NextQueued(fut) ==
    LET q == {i \in 1..Len(fut) : fut[i].st = "queued"}
    IN  IF q = {} THEN 0 ELSE CHOOSE i \in q : \A j \in q : i <= j

\* Variant: a call is started for a queued task whether or not the worker
\* is still running one.
WorkerFree_Always(workers, w) == TRUE

\* A pool process runs one call at a time: it takes a task from the call
\* queue only when it runs none.
WorkerFree(workers, w) == workers[w] = 0

DispInit ==
    /\ d_script \in BatchScripts
    /\ d_n \in 1..MaxPrompts
    /\ d_fut = [i \in 1..d_n |-> [st |-> "queued", out |-> Returned(None)]]
    /\ d_worker = [w \in 1..max_workers |-> 0]
    /\ d_results = [i \in 1..d_n |-> None]
    /\ d_seen = <<>>
    /\ d_pc = "pool"

\* A free pool worker takes the next queued call and starts it (the jitter
\* sleep is its first statement).
DispStart ==
    /\ d_pc = "pool"
    /\ \E w \in 1..max_workers :
         /\ WorkerFree(d_worker, w)
         /\ NextQueued(d_fut) # 0
         /\ d_worker' = [d_worker EXCEPT ![w] = NextQueued(d_fut)]
         /\ d_fut' = [d_fut EXCEPT ![NextQueued(d_fut)].st = "running"]
    /\ UNCHANGED <<d_script, d_n, d_results, d_seen, d_pc, notDisp>>

\* A worker's process_prompt_with_retry call ends; the future is done.
DispFinish ==
    /\ d_pc = "pool"
    /\ \E w \in 1..max_workers, o \in Outcomes :
         /\ d_worker[w] # 0
         /\ d_fut' = [d_fut EXCEPT ![d_worker[w]] = [st |-> "done", out |-> o]]
         /\ d_worker' = [d_worker EXCEPT ![w] = 0]
    /\ UNCHANGED <<d_script, d_n, d_results, d_seen, d_pc, notDisp>>

\* One iteration of the as_completed loop: any finished future not yet
\* yielded is handled.
DispCollect ==
    /\ d_pc = "pool"
    /\ \E i \in 1..d_n :
         /\ d_fut[i].st = "done"
         /\ i \notin Range(d_seen)
         /\ d_seen' = Append(d_seen, i)
         /\ LET err == CollectError(d_script, d_fut[i].out)
                slot == SlotOf(i, d_seen)
            IN  IF err = "none" \/ CollectorCatches(err)
                THEN /\ d_results' = [d_results EXCEPT
                            ![slot] = SlotAfter(d_script, d_results[slot], d_fut[i].out)]
                     /\ d_pc' = "pool"
                ELSE /\ d_results' = d_results
                     /\ d_pc' = "aborted"
    /\ UNCHANGED <<d_script, d_n, d_fut, d_worker, notDisp>>

\* The loop has handled every future: leave the with block, return results.
DispReturn ==
    /\ d_pc = "pool"
    /\ Range(d_seen) = 1..d_n
    /\ d_pc' = "returned"
    /\ UNCHANGED <<d_script, d_n, d_fut, d_worker, d_results, d_seen, notDisp>>

DispNext == DispStart \/ DispFinish \/ DispCollect \/ DispReturn

DispIdle ==
    /\ d_script = "ai_explain"
    /\ d_n = 0
    /\ d_fut = <<>>
    /\ d_worker = [w \in 1..max_workers |-> 0]
    /\ d_results = <<>>
    /\ d_seen = <<>>
    /\ d_pc = "idle"

\* The list process_all_prompts returns when its calls end with outs.
ReturnedResults(scr, outs) ==
    [i \in 1..Len(outs) |-> SlotAfter(scr, None, outs[i])]

-----------------------------------------------------------------------------
(* load_sentences_from_csv and the persist calls                           *)

\* The loop of load_sentences_from_csv over the data rows from position i:
\* a row with a non-blank first cell yields (idx, sentence), idx being the
\* row's position among the data rows counted from 1, sentence the stripped
\* cell with the default terminator appended when it ends in none.
RECURSIVE LoadFrom(_, _)
LoadFrom(data_rows, i) ==
    IF i > Len(data_rows) THEN <<>>
    ELSE LET row == data_rows[i]
         IN  IF row # <<>> /\ Strip(row[1]) # <<>>
             THEN LET stripped == Strip(row[1])
                      sentence == IF stripped[Len(stripped)] \in Terminators
                                  THEN stripped ELSE Append(stripped, zh_stop)
                  IN  <<[idx |-> i, sentence |-> sentence]>> \o LoadFrom(data_rows, i + 1)
             ELSE LoadFrom(data_rows, i + 1)

\* load_sentences_from_csv(csv_path): next(reader, None) drops the header.
load_sentences_from_csv(table) ==
    IF table = <<>> THEN <<>> ELSE LoadFrom(Tail(table), 1)

\* [(idx, sentence, result) for (idx, sentence), result in zip(batch, results)]
Zip3(batch, res) ==
    [i \in 1..Len(batch) |->
        [idx |-> batch[i].idx, sentence |-> batch[i].sentence, result |-> res[i]]]

\* The persist call of ai_yes_no.main: only the entries with a truthy
\* result are handed to write_results_to_csv.
yes_no_persist(table, indexed_results) ==
    yes_no_write_results_to_csv(table,
        SelectSeq(indexed_results, LAMBDA r : Truthy(r.result)))

\* The optional results a persist call may carry.
ResultValues == {None} \cup {Some(clean_formatting(t)) : t \in Responses}

WriteInit ==
    /\ w_table \in Tables \cup {<<>>}
    /\ w_call = [op |-> "none"]
    /\ w_out = Rows(<<>>)

\* ai_explain.write_results_to_csv(csv_path, results, offset)
WriteFirst ==
    /\ w_call.op = "none"
    /\ \E n \in 1..batch_size, offset \in 0..MaxRows :
         \E res \in [1..n -> ResultValues] :
            /\ w_call' = [op |-> "first", results |-> res, offset |-> offset]
            /\ w_out' = explain_write_results_to_csv(w_table, res, offset)
    /\ UNCHANGED <<w_table, notWrite>>

\* One pass of the retry write loop of ai_explain.main.
WriteRetry ==
    /\ w_call.op = "none"
    /\ \E idx \in 1..(MaxRows + 1), t \in Responses :
         /\ w_call' = [op |-> "retry", idx |-> idx, result |-> Some(clean_formatting(t))]
         /\ w_out' = explain_retry_write(w_table, idx, Some(clean_formatting(t)))
    /\ UNCHANGED <<w_table, notWrite>>

\* The persist call of ai_yes_no.main for a batch of one or two sentences.
WriteYesNo ==
    /\ w_call.op = "none"
    /\ \E n \in 1..batch_size :
         \E idxs \in [1..n -> 1..(MaxRows + 1)], res \in [1..n -> ResultValues] :
            /\ \A i, j \in 1..n : i < j => idxs[i] < idxs[j]
            /\ LET ir == [i \in 1..n |->
                            [idx |-> idxs[i], sentence |-> <<"s", zh_stop>>,
                             result |-> res[i]]]
               IN  /\ w_call' = [op |-> "yes_no", indexed_results |-> ir]
                   /\ w_out' = yes_no_persist(w_table, ir)
    /\ UNCHANGED <<w_table, notWrite>>

WriteNext == WriteFirst \/ WriteRetry \/ WriteYesNo

WriteIdle ==
    /\ w_table = <<>>
    /\ w_call = [op |-> "idle"]
    /\ w_out = Rows(<<>>)

-----------------------------------------------------------------------------
(* build_prompts and the calls of the functions without side effects       *)

\* The position of the "}" that closes the replacement field opened at
\* p - 1, scanning from p; 0 when a "{" or the end of the template comes
\* first (ValueError).
RECURSIVE FieldEnd(_, _)
FieldEnd(template, p) ==
    IF p > Len(template) THEN 0
    ELSE IF template[p] = "}" THEN p
    ELSE IF template[p] = "{" THEN 0
    ELSE FieldEnd(template, p + 1)

\* What str.format yields: the text, or the exception class.
Formatted(t) == [err |-> "none", text |-> t]
FormatFails(e) == [err |-> e, text |-> <<>>]

\* template.format(sentence) from position p on.  "{{" and "}}" stand for
\* one brace; "{}" takes the next positional argument (automatic numbering,
\* and there is one argument only), "{0}" the argument 0; a field with
\* another name raises KeyError, a lone brace ValueError, a change between
\* automatic and manual numbering ValueError.  The template is processed
\* from left to right and the first error is the one raised.  numbering is
\* "none", "manual", or "auto" once the one automatic field is used up.
RECURSIVE FormatFrom(_, _, _, _)
FormatFrom(template, p, numbering, sentence) ==
    IF p > Len(template) THEN Formatted(<<>>)
    ELSE LET c == template[p]
             double == p < Len(template) /\ template[p + 1] = c
             q == FieldEnd(template, p + 1)
             name == Slice(template, p + 1, q - 1)
             rest(from, mode) == FormatFrom(template, from, mode, sentence)
             then(piece, r) == IF r.err = "none" THEN Formatted(piece \o r.text) ELSE r
         IN  IF c \notin {"{", "}"} THEN then(<<c>>, rest(p + 1, numbering))
             ELSE IF double THEN then(<<c>>, rest(p + 2, numbering))
             ELSE IF c = "}" THEN FormatFails("ValueError")
             ELSE IF q = 0 THEN FormatFails("ValueError")
             ELSE IF name = <<>>
             THEN IF numbering = "manual" THEN FormatFails("ValueError")
                  ELSE IF numbering = "auto" THEN FormatFails("IndexError")
                  ELSE then(sentence, rest(q + 1, "auto"))
             ELSE IF \A k \in 1..Len(name) : name[k] = "0"
             THEN IF numbering = "auto" THEN FormatFails("ValueError")
                  ELSE then(sentence, rest(q + 1, "manual"))
             ELSE FormatFails("KeyError")

\* What build_prompts yields: the prompts, or the exception class.
Prompts(ps) == [err |-> "none", prompts |-> ps]
BuildFails(e) == [err |-> e, prompts |-> <<>>]

\* [template.format(sentence) for _, sentence in indexed_sentences] from
\* position i on: the first exception ends the comprehension.
RECURSIVE BuildFrom(_, _, _)
BuildFrom(template, indexed, i) ==
    IF i > Len(indexed) THEN Prompts(<<>>)
    ELSE LET one == FormatFrom(template, 1, "none", indexed[i].sentence)
             more == BuildFrom(template, indexed, i + 1)
         IN  IF one.err # "none" THEN BuildFails(one.err)
             ELSE IF more.err # "none" THEN more
             ELSE Prompts(<<one.text>> \o more.prompts)

\* build_prompts(template, indexed_sentences)
build_prompts(template, indexed) == BuildFrom(template, indexed, 1)

\* The texts of at most n characters over an alphabet.
TextsOver(alphabet, n) == UNION { [1..k -> alphabet] : k \in 0..n }

\* The response texts split_result_lines is called on.
ResponseTexts == TextsOver({SP, NL, "a", "b"}, MaxText)

\* The templates build_prompts is called on.
Templates == TextsOver({"p", "{", "}", "0"}, MaxText)

\* The (idx, sentence) lists build_prompts is called on.
SentenceLists ==
    { <<>>,
      << [idx |-> 1, sentence |-> <<"s", zh_stop>>] >>,
      << [idx |-> 1, sentence |-> <<"s", zh_stop>>],
         [idx |-> 3, sentence |-> <<"{", "t", "?">>] >> }

\* The first cells of the rows load_sentences_from_csv reads: empty, blank,
\* with and without terminator, with leading and trailing spaces.
LoadCells ==
    { <<>>, <<SP>>, <<"s">>, <<SP, "s">>, <<"s", SP>>, <<"s", ".">>,
      <<"s", ".", SP>>, <<"s", "zh_quest">>, <<"!", "s">>, <<"?">> }

\* The tables load_sentences_from_csv is called on: a header and up to
\* MaxRows rows of one cell.
LoadTables ==
    { << <<col_yuanju>> >> \o rows :
        rows \in UNION { [1..n -> {<<c>> : c \in LoadCells}] : n \in 0..MaxRows } }

CallInit ==
    /\ f_call = [op |-> "none"]
    /\ f_ret = <<>>

\* split_result_lines(text)
CallSplit ==
    /\ f_call.op = "none"
    /\ \E text \in ResponseTexts :
         /\ f_call' = [op |-> "split_result_lines", text |-> text]
         /\ f_ret' = split_result_lines(text)
    /\ UNCHANGED notCall

\* load_sentences_from_csv(csv_path) on a file holding table
CallLoad ==
    /\ f_call.op = "none"
    /\ \E table \in LoadTables :
         /\ f_call' = [op |-> "load_sentences_from_csv", table |-> table]
         /\ f_ret' = load_sentences_from_csv(table)
    /\ UNCHANGED notCall

\* build_prompts(template, indexed_sentences)
CallBuild ==
    /\ f_call.op = "none"
    /\ \E template \in Templates, indexed \in SentenceLists :
         /\ f_call' = [op |-> "build_prompts", template |-> template,
                       indexed_sentences |-> indexed]
         /\ f_ret' = build_prompts(template, indexed)
    /\ UNCHANGED notCall

CallNext == CallSplit \/ CallLoad \/ CallBuild

CallIdle ==
    /\ f_call = [op |-> "idle"]
    /\ f_ret = <<>>

-----------------------------------------------------------------------------
(* main                                                                    *)

Min(a, b) == IF a <= b THEN a ELSE b

\* Variant: the slice starts one position early.
Batch_StartsEarly(sentences, ci) ==
    Slice(sentences, IF ci = 0 THEN 1 ELSE ci, Min(ci + batch_size, Len(sentences)))

\* indexed_sentences[current_index:current_index + batch_size]
Batch(sentences, ci) == Slice(sentences, ci + 1, Min(ci + batch_size, Len(sentences)))

\* The file main persists results into: ai_explain the source table,
\* ai_yes_no results/ai_judgment.csv.
ResultFile == IF m_script = "ai_explain" THEN csv ELSE out_csv

\* The failure test of main on one result: ai_explain "r is None",
\* ai_yes_no "not result".
IsFailed(scr, r) == IF scr = "ai_explain" THEN ~r.some ELSE ~Truthy(r)

\* failed_indices / failed: the positions in the batch of the failed results.
RECURSIVE FailedFrom(_, _, _)
FailedFrom(scr, res, i) ==
    IF i > Len(res) THEN <<>>
    ELSE IF IsFailed(scr, res[i]) THEN <<i>> \o FailedFrom(scr, res, i + 1)
    ELSE FailedFrom(scr, res, i + 1)

FailedPositions(scr, res) == FailedFrom(scr, res, 1)

\* Variant: the whole batch is retried.
FailedBatch_WholeBatch(batch, failed) == batch

\* failed_batch = [batch[i] for i in failed_indices]
FailedBatch(batch, failed) == [j \in 1..Len(failed) |-> batch[failed[j]]]

\* Variant: the retry write loop ends after its first pass.
NextRetryWrite_FirstOnly(res, j) ==
    IF j = 1 /\ Len(res) >= 1 /\ res[1].some THEN 1 ELSE Len(res) + 1

\* The next position at or after j of the retry write loop whose result is
\* not None; Len + 1 when there is none.
RECURSIVE NextRetryWrite(_, _)
NextRetryWrite(res, j) ==
    IF j > Len(res) THEN Len(res) + 1
    ELSE IF res[j].some THEN j
    ELSE NextRetryWrite(res, j + 1)

\* An input() prompt and whether the answer, lowercased, was y.
Asked(question, yes) == [q |-> question, yes |-> yes]

\* Variant: the bound of the last batch is counted as a batch still to come.
MoreLeft_Inclusive(ci, total) == ci + batch_size <= total

\* if current_index + batch_size < total: the operator is asked whether to
\* go on only when sentences are left after the batch.
MoreLeft(ci, total) == ci + batch_size < total

\* update_failed_txt(path, failed_sentences, succeeded_indices): the file is
\* rewritten with the failed sentences that did not succeed in the retry.
update_failed_txt(failed_sentences, succeeded_indices) ==
    SelectSeq(failed_sentences, LAMBDA fs : fs.idx \notin succeeded_indices)

\* The idx of the batch's sentences whose result passes main's failure test.
Successes(scr, batch, res) ==
    {batch[i].idx : i \in {j \in 1..Len(batch) : ~IsFailed(scr, res[j])}}

MainInit ==
    /\ m_script \in BatchScripts
    /\ csv \in Tables
    /\ out_csv = <<>>
    /\ failed_txt = <<>>
    /\ success_txt = <<>>
    /\ indexed_sentences = load_sentences_from_csv(csv)
    /\ current_index = 0
    /\ pc = "loop"
    /\ results = <<>>
    /\ retry_results = <<>>
    /\ retry_i = 1
    /\ pending = <<>>
    /\ csv0 = (IF m_script = "ai_explain" THEN csv ELSE <<>>)
    /\ committed = csv0
    /\ owed = 0
    /\ attempted = {}
    /\ succeeded = {}
    /\ batches = <<>>
    /\ dispatched = <<>>
    /\ prompted = <<>>

\* while current_index < total: the batch is cut, its prompts are built and
\* process_all_prompts returns the results of the calls.
MainDispatch ==
    /\ pc = "loop"
    /\ current_index < Len(indexed_sentences)
    /\ LET batch == Batch(indexed_sentences, current_index)
       IN  \E outs \in [1..Len(batch) -> Outcomes] :
              /\ results' = ReturnedResults(m_script, outs)
              /\ attempted' = attempted \cup {batch[i].idx : i \in 1..Len(batch)}
              /\ succeeded' = succeeded \cup Successes(m_script, batch, results')
    /\ retry_results' = <<>>
    /\ retry_i' = 1
    /\ committed' = ResultFile
    /\ owed' = 1
    /\ pc' = "write"
    /\ batches' = Append(batches, Batch(indexed_sentences, current_index))
    /\ dispatched' = <<Batch(indexed_sentences, current_index)>>
    /\ prompted' = <<>>
    /\ UNCHANGED <<m_script, csv, out_csv, failed_txt, success_txt, indexed_sentences,
                   current_index, pending, csv0, notMain>>

\* The loop condition fails: main prints its last line and ends.
MainExit ==
    /\ pc = "loop"
    /\ current_index >= Len(indexed_sentences)
    /\ pc' = "done"
    /\ UNCHANGED <<batches, dispatched, prompted>>
    /\ UNCHANGED <<m_script, csv, out_csv, failed_txt, success_txt, indexed_sentences,
                   current_index, results, retry_results, retry_i, pending, csv0,
                   committed, owed, attempted, succeeded, notMain>>

\* The rows the batch's first persist call computes.
FirstPersist ==
    IF m_script = "ai_explain"
    THEN explain_write_results_to_csv(csv, results, current_index)
    ELSE yes_no_persist(out_csv,
                        Zip3(Batch(indexed_sentences, current_index), results))

\* A persist call up to its open(csv_path, 'w'): the file is read, the rows
\* are computed and the file is truncated; an exception ends main.
OpenForWrite(out, next_pc) ==
    IF out.err = "none"
    THEN /\ pending' = out.rows
         /\ IF m_script = "ai_explain"
            THEN csv' = <<>> /\ out_csv' = out_csv
            ELSE out_csv' = <<>> /\ csv' = csv
         /\ pc' = next_pc
    ELSE /\ pc' = "crashed"
         /\ UNCHANGED <<pending, csv, out_csv>>

\* The rest of a persist call: the rows are written and the file is closed.
CloseAfterWrite ==
    /\ IF m_script = "ai_explain"
       THEN csv' = pending /\ out_csv' = out_csv
       ELSE out_csv' = pending /\ csv' = csv
    /\ pending' = <<>>
    /\ owed' = owed - 1

\* write_results_to_csv of the batch, up to the truncation of the file.
WriteOpen ==
    /\ pc = "write"
    /\ OpenForWrite(FirstPersist, "write_flush")
    /\ UNCHANGED <<batches, dispatched, prompted>>
    /\ UNCHANGED <<m_script, failed_txt, success_txt, indexed_sentences, current_index,
                   results, retry_results, retry_i, csv0, committed, owed, attempted,
                   succeeded, notMain>>

\* write_results_to_csv of the batch completes; main then lists the failed
\* sentences and asks about the retry, or reports that all succeeded.
WriteClose ==
    /\ pc = "write_flush"
    /\ CloseAfterWrite
    /\ pc' = IF FailedPositions(m_script, results) # <<>> THEN "ask_retry"
             ELSE "ask_continue"
    /\ UNCHANGED <<batches, dispatched, prompted>>
    /\ UNCHANGED <<m_script, failed_txt, success_txt, indexed_sentences, current_index,
                   results, retry_results, retry_i, csv0, committed, attempted,
                   succeeded, notMain>>

\* The operator answers y: the failed sentences are dispatched again.
\* ai_explain then writes each result that is not None, ai_yes_no calls
\* write_results_to_csv once with the truthy ones.
AnswerRetry ==
    /\ pc = "ask_retry"
    /\ LET batch == Batch(indexed_sentences, current_index)
           failed_batch == FailedBatch(batch, FailedPositions(m_script, results))
       IN  \E outs \in [1..Len(failed_batch) -> Outcomes] :
              /\ retry_results' = ReturnedResults(m_script, outs)
              /\ succeeded' = succeeded \cup Successes(m_script, failed_batch, retry_results')
    /\ retry_i' = IF m_script = "ai_explain" THEN NextRetryWrite(retry_results', 1) ELSE 1
    /\ owed' = IF m_script = "ai_explain"
               THEN Cardinality({j \in 1..Len(retry_results') : retry_results'[j].some})
               ELSE 1
    /\ pc' = IF m_script = "ai_explain" /\ retry_i' > Len(retry_results') THEN "ask_continue"
             ELSE "retry_write"
    /\ dispatched' = Append(dispatched,
                            FailedBatch(Batch(indexed_sentences, current_index),
                                        FailedPositions(m_script, results)))
    /\ prompted' = Append(prompted, Asked("retry", TRUE))
    /\ UNCHANGED batches
    /\ UNCHANGED <<m_script, csv, out_csv, failed_txt, success_txt, indexed_sentences,
                   current_index, results, pending, csv0, committed, attempted,
                   notMain>>

\* The operator answers anything else: the retry is skipped.
SkipRetry ==
    /\ pc = "ask_retry"
    /\ pc' = "ask_continue"
    /\ prompted' = Append(prompted, Asked("retry", FALSE))
    /\ UNCHANGED <<batches, dispatched>>
    /\ UNCHANGED <<m_script, csv, out_csv, failed_txt, success_txt, indexed_sentences,
                   current_index, results, retry_results, retry_i, pending, csv0,
                   committed, owed, attempted, succeeded, notMain>>

\* The rows the next persist call of the retry computes.
RetryPersist ==
    LET batch == Batch(indexed_sentences, current_index)
        failed_batch == FailedBatch(batch, FailedPositions(m_script, results))
    IN  IF m_script = "ai_explain"
        THEN explain_retry_write(csv, failed_batch[retry_i].idx, retry_results[retry_i])
        ELSE yes_no_persist(out_csv, Zip3(failed_batch, retry_results))

\* A persist call of the retry, up to the truncation of the file.
RetryWriteOpen ==
    /\ pc = "retry_write"
    /\ OpenForWrite(RetryPersist, "retry_flush")
    /\ UNCHANGED <<batches, dispatched, prompted>>
    /\ UNCHANGED <<m_script, failed_txt, success_txt, indexed_sentences, current_index,
                   results, retry_results, retry_i, csv0, committed, owed, attempted,
                   succeeded, notMain>>

\* A persist call of the retry completes.  ai_explain goes on to the next
\* result that is not None; ai_yes_no rewrites results/failed.txt with the
\* sentences of the batch that failed again.
RetryWriteClose ==
    /\ pc = "retry_flush"
    /\ CloseAfterWrite
    /\ LET batch == Batch(indexed_sentences, current_index)
           failed_batch == FailedBatch(batch, FailedPositions(m_script, results))
       IN  IF m_script = "ai_explain"
           THEN /\ retry_i' = NextRetryWrite(retry_results, retry_i + 1)
                /\ pc' = IF retry_i' > Len(retry_results) THEN "ask_continue" ELSE "retry_write"
                /\ failed_txt' = failed_txt
           ELSE /\ retry_i' = retry_i
                /\ pc' = "ask_continue"
                /\ failed_txt' = update_failed_txt(failed_batch,
                                    Successes(m_script, failed_batch, retry_results))
    /\ UNCHANGED <<batches, dispatched, prompted>>
    /\ UNCHANGED <<m_script, success_txt, indexed_sentences, current_index, results,
                   retry_results, csv0, committed, attempted, succeeded, notMain>>

\* Variant: the operator answers y and the same batch is taken again.
AnswerContinue_SameIndex ==
    /\ pc = "ask_continue"
    /\ MoreLeft(current_index, Len(indexed_sentences))
    /\ current_index' = current_index
    /\ pc' = "loop"
    /\ prompted' = Append(prompted, Asked("continue", TRUE))
    /\ UNCHANGED <<m_script, csv, out_csv, failed_txt, success_txt, indexed_sentences,
                   results, retry_results, retry_i, pending, csv0, committed, owed,
                   attempted, succeeded, batches, dispatched, notMain>>

\* More sentences are left and the operator answers y: the next batch.
AnswerContinue ==
    /\ pc = "ask_continue"
    /\ MoreLeft(current_index, Len(indexed_sentences))
    /\ current_index' = current_index + batch_size
    /\ pc' = "loop"
    /\ prompted' = Append(prompted, Asked("continue", TRUE))
    /\ UNCHANGED <<batches, dispatched>>
    /\ UNCHANGED <<m_script, csv, out_csv, failed_txt, success_txt, indexed_sentences,
                   results, retry_results, retry_i, pending, csv0, committed, owed,
                   attempted, succeeded, notMain>>

\* Variant: without the break the loop goes on to the next batch.
AnswerStop_GoesOn ==
    /\ pc = "ask_continue"
    /\ MoreLeft(current_index, Len(indexed_sentences))
    /\ current_index' = current_index + batch_size
    /\ pc' = "loop"
    /\ prompted' = Append(prompted, Asked("continue", FALSE))
    /\ UNCHANGED <<m_script, csv, out_csv, failed_txt, success_txt, indexed_sentences,
                   results, retry_results, retry_i, pending, csv0, committed, owed,
                   attempted, succeeded, batches, dispatched, notMain>>

\* More sentences are left and the operator answers anything else: break.
AnswerStop ==
    /\ pc = "ask_continue"
    /\ MoreLeft(current_index, Len(indexed_sentences))
    /\ pc' = "done"
    /\ prompted' = Append(prompted, Asked("continue", FALSE))
    /\ UNCHANGED <<batches, dispatched>>
    /\ UNCHANGED <<m_script, csv, out_csv, failed_txt, success_txt, indexed_sentences,
                   current_index, results, retry_results, retry_i, pending, csv0,
                   committed, owed, attempted, succeeded, notMain>>

\* The batch was the last one: the operator is not asked, current_index
\* passes total.
LastBatchDone ==
    /\ pc = "ask_continue"
    /\ ~MoreLeft(current_index, Len(indexed_sentences))
    /\ current_index' = current_index + batch_size
    /\ pc' = "loop"
    /\ UNCHANGED <<batches, dispatched, prompted>>
    /\ UNCHANGED <<m_script, csv, out_csv, failed_txt, success_txt, indexed_sentences,
                   results, retry_results, retry_i, pending, csv0, committed, owed,
                   attempted, succeeded, notMain>>

\* The process dies while a batch is being processed (killed, power loss):
\* the files stay as they are on disk.
Crash ==
    /\ pc \in {"write", "write_flush", "ask_retry", "retry_write", "retry_flush",
               "ask_continue"}
    /\ pc' = "crashed"
    /\ UNCHANGED <<batches, dispatched, prompted>>
    /\ UNCHANGED <<m_script, csv, out_csv, failed_txt, success_txt, indexed_sentences,
                   current_index, results, retry_results, retry_i, pending, csv0,
                   committed, owed, attempted, succeeded, notMain>>

MainNext ==
    \/ MainDispatch \/ MainExit \/ WriteOpen \/ WriteClose
    \/ AnswerRetry \/ SkipRetry \/ RetryWriteOpen \/ RetryWriteClose
    \/ AnswerContinue \/ AnswerStop \/ LastBatchDone \/ Crash

MainIdle ==
    /\ m_script = "ai_explain"
    /\ csv = <<>>
    /\ out_csv = <<>>
    /\ failed_txt = <<>>
    /\ success_txt = <<>>
    /\ indexed_sentences = <<>>
    /\ current_index = 0
    /\ pc = "idle"
    /\ results = <<>>
    /\ retry_results = <<>>
    /\ retry_i = 1
    /\ pending = <<>>
    /\ csv0 = <<>>
    /\ committed = <<>>
    /\ owed = 0
    /\ attempted = {}
    /\ succeeded = {}
    /\ batches = <<>>
    /\ dispatched = <<>>
    /\ prompted = <<>>

-----------------------------------------------------------------------------
vars == <<retryVars, dispVars, writeVars, mainVars, callVars>>

\* A run of main of ai_explain or ai_yes_no on every input table.
Init == MainInit /\ RetryIdle /\ DispIdle /\ WriteIdle /\ CallIdle
Next == MainNext
Spec == Init /\ [][Next]_vars

\* One call of process_prompt_with_retry, for every m_script and retries.
InitRetry == RetryInit /\ DispIdle /\ WriteIdle /\ MainIdle /\ CallIdle
SpecRetry == InitRetry /\ [][RetryNext]_vars

\* One call of process_all_prompts, for every number of prompts.
InitDispatch == DispInit /\ RetryIdle /\ WriteIdle /\ MainIdle /\ CallIdle
SpecDispatch == InitDispatch /\ [][DispNext]_vars

\* One persist call on every input table.
InitWrite == WriteInit /\ RetryIdle /\ DispIdle /\ MainIdle /\ CallIdle
SpecWrite == InitWrite /\ [][WriteNext]_vars

\* One call of split_result_lines, load_sentences_from_csv or build_prompts
\* on every input within the bounds.
InitCall == CallInit /\ RetryIdle /\ DispIdle /\ WriteIdle /\ MainIdle
SpecCall == InitCall /\ [][CallNext]_vars

\* A run of main in which the process is not killed: every remote call
\* returns or raises (process_all_prompts returns), the operator answers
\* every prompt and every file operation completes, so main takes its next
\* step whenever it has one.
RunNext ==
    \/ MainDispatch \/ MainExit \/ WriteOpen \/ WriteClose
    \/ AnswerRetry \/ SkipRetry \/ RetryWriteOpen \/ RetryWriteClose
    \/ AnswerContinue \/ AnswerStop \/ LastBatchDone
SpecRun == Init /\ [][RunNext]_vars /\ WF_vars(RunNext)

-----------------------------------------------------------------------------
(* Properties of process_all_prompts                                       *)

\* What a script keeps of a call's outcome: ai_explain the cleaned text,
\* ai_yes_no the stripped text when it is not empty; nothing otherwise.
OwnResult(scr, out) ==
    IF out.kind = "raise" \/ ~out.val.some THEN None
    ELSE IF scr = "ai_explain" THEN Some(clean_formatting(out.val.text))
    ELSE IF out.val.text = <<>> THEN None
    ELSE Some(Strip(out.val.text))

\* C1: whatever the order in which the futures complete and are yielded,
\* the results list has the length of the prompts, the slot of every
\* yielded future holds what the script keeps of that prompt's own outcome,
\* and the slot of every future not yet yielded is still None.
C1_SlotAlignment ==
    d_pc \in {"pool", "returned"} =>
      /\ Len(d_results) = d_n
      /\ \A i \in 1..d_n :
           d_results[i] = IF i \in Range(d_seen)
                          THEN OwnResult(d_script, d_fut[i].out)
                          ELSE None

\* C1 witness: two prompts with different outcomes, yielded in the reverse
\* of the submission order, and the call has returned.
C1_Witness ==
    /\ d_pc = "returned"
    /\ d_n = 2
    /\ d_seen = <<2, 1>>
    /\ d_results[1] # d_results[2]
    /\ d_results[2].some

\* C4: process_all_prompts never aborts, and when it returns the slot of
\* every prompt whose call raised or returned None is None while the slot
\* of every prompt whose call returned a text holds that prompt's result.
C4_FailuresStayLocal ==
    /\ d_pc # "aborted"
    /\ d_pc = "returned" =>
         \A i \in 1..d_n :
            IF d_fut[i].out.kind = "raise" \/ ~d_fut[i].out.val.some
            THEN d_results[i] = None
            ELSE /\ d_results[i].text =
                      IF d_script = "ai_explain"
                      THEN clean_formatting(d_fut[i].out.val.text)
                      ELSE Strip(d_fut[i].out.val.text)
                 /\ d_script = "ai_explain" => d_results[i].some

\* C4 witness: a returned call of three prompts, one that raised, one whose
\* retries were used up and one that succeeded.
C4_Witness ==
    /\ d_pc = "returned"
    /\ d_n = 3
    /\ \E i, j, k \in 1..3 :
         /\ d_fut[i].out = Raised
         /\ d_fut[j].out = Returned(None)
         /\ d_fut[k].out.val.some
         /\ d_results[k].some
         /\ ~d_results[i].some /\ ~d_results[j].some

-----------------------------------------------------------------------------
(* Properties of process_prompt_with_retry                                 *)

\* C3: a call whose every attempt raised ServerError and that returned None
\* made exactly retries attempts and printed exactly retries - 1 retry
\* messages.
C3_RetryBound ==
    (/\ r_pc = "returned"
     /\ ~r_ret.some
     /\ \A k \in 1..Len(r_calls) : r_calls[k] = "ServerError")
    => /\ Len(r_calls) = r_retries
       /\ Len(r_log) = r_retries - 1

\* C8: in every script an attempt that raised an error other than
\* ServerError is the last attempt, the call fails with it at once and no
\* delay follows it.
C8_OtherErrorNotRetried ==
    \A k \in 1..Len(r_calls) :
       r_calls[k] = "OtherError" =>
          /\ k = Len(r_calls)
          /\ r_pc = "raised"
          /\ r_sleeps = k - 1

-----------------------------------------------------------------------------
(* Properties of the persist calls                                         *)

\* The file after the call: an exception leaves it as it was.
FileAfter == IF w_out.err = "none" THEN w_out.rows ELSE w_table

\* new_row is old_row with nothing removed: outside the target positions
\* every old cell is kept and every added cell is empty.
KeptExcept(old_row, new_row, targets) ==
    /\ Len(new_row) >= Len(old_row)
    /\ \A c \in 1..Len(new_row) :
          c \notin targets =>
             new_row[c] = IF c <= Len(old_row) THEN old_row[c] ELSE <<>>

IsPrefix(a, b) == Len(a) <= Len(b) /\ SubSeq(b, 1, Len(a)) = a

\* The data rows a call writes, as positions among the data rows from 1.
WrittenRows ==
    IF w_call.op = "first"
    THEN {w_call.offset + i : i \in {j \in 1..Len(w_call.results) :
                                        Truthy(w_call.results[j])}}
    ELSE IF w_call.op = "retry" THEN {w_call.idx}
    ELSE IF w_call.op = "yes_no"
    THEN {w_call.indexed_results[i].idx :
             i \in {j \in 1..Len(w_call.indexed_results) :
                       Truthy(w_call.indexed_results[j].result)}}
    ELSE {}

\* The positions of the two target cells in a row of the file after the call.
TargetCells ==
    IF w_call.op = "yes_no" THEN {1, 2}
    ELSE {IndexOf(FileAfter[1], col_ai_panduan), IndexOf(FileAfter[1], col_ai_lijie)}

C9_ShortTableIsPadded ==
    (/\ w_call.op \in {"first", "retry", "yes_no"}
     /\ w_table # <<>>
     /\ \E r \in WrittenRows : r > Len(w_table) - 1)
    => /\ w_out.err = "none"
       /\ \A r \in WrittenRows : r + 1 <= Len(w_out.rows)
       /\ \A r \in (Len(w_table) + 1)..Len(w_out.rows) :
             (r - 1) \notin WrittenRows =>
                w_out.rows[r] = [c \in 1..Len(w_out.rows[1]) |-> <<>>]

-----------------------------------------------------------------------------
(* Properties of main                                                      *)

\* The batch main is working on and its failed sentences.
CurrentBatch == Batch(indexed_sentences, current_index)
CurrentFailedBatch == FailedBatch(CurrentBatch, FailedPositions(m_script, results))

\* Does the data row idx of the result file hold result r?  In ai_explain
\* the judgment and the explanation of r stand in the two result columns,
\* in ai_yes_no r stands in the second cell.
HoldsResult(table, idx, r) ==
    /\ Len(table) >= idx + 1
    /\ IF m_script = "ai_explain"
       THEN LET parsed == split_result_lines(r.text)
                pj == IndexOf(table[1], col_ai_panduan)
                pe == IndexOf(table[1], col_ai_lijie)
            IN  /\ col_ai_panduan \in Range(table[1])
                /\ col_ai_lijie \in Range(table[1])
                /\ Len(table[idx + 1]) >= pj /\ Len(table[idx + 1]) >= pe
                /\ table[idx + 1][pj] = OrEmpty(parsed.judgment)
                /\ table[idx + 1][pe] = OrEmpty(parsed.explanation)
       ELSE /\ Len(table[idx + 1]) >= 2
            /\ table[idx + 1][2] = r.text

\* C2: once the first write of a batch has completed, every truthy result
\* of the batch stands in the data row of its sentence's index, and once
\* the retry writes have completed so does every retry result written.
C2_ResultInRowOfIndex ==
    /\ (pc \in {"ask_retry", "ask_continue"} /\ retry_results = <<>>) =>
          \A i \in 1..Len(results) :
             Truthy(results[i]) =>
                HoldsResult(ResultFile, CurrentBatch[i].idx, results[i])
    /\ (pc = "ask_continue" /\ retry_results # <<>>) =>
          \A j \in 1..Len(retry_results) :
             ~IsFailed(m_script, retry_results[j]) =>
                HoldsResult(ResultFile, CurrentFailedBatch[j].idx, retry_results[j])

\* C5: whenever main is about to cut and dispatch a batch, every persist
\* call of the batches before it, those of a retry included, has completed
\* and no file is left open for writing.
C5_BatchesSequential ==
    pc = "loop" => owed = 0 /\ pending = <<>>

\* C5 witness: main is about to dispatch the second batch after a first
\* batch whose retry produced a result that was written.
C5_Witness ==
    /\ pc = "loop"
    /\ current_index > 0
    /\ current_index < Len(indexed_sentences)
    /\ \E j \in 1..Len(retry_results) : Truthy(retry_results[j])
    /\ owed = 0

\* C7: when main has ended, the failure log holds exactly one line for each
\* dispatched sentence without a successful result and no other line, and
\* the success log holds exactly one block for each sentence with one.
C7_LogsMatchOutcomes ==
    pc = "done" =>
       /\ \A idx \in attempted \ succeeded :
             Cardinality({n \in 1..Len(failed_txt) : failed_txt[n].idx = idx}) = 1
       /\ \A n \in 1..Len(failed_txt) : failed_txt[n].idx \in attempted \ succeeded
       /\ \A idx \in succeeded :
             Cardinality({n \in 1..Len(success_txt) : success_txt[n].idx = idx}) = 1

\* Is cell (r, c) of table present?
HasCell(table, r, c) == r <= Len(table) /\ c <= Len(table[r])

\* C10: after a crash every result cell that the batches before the current
\* one put into the result file (a filled cell of a data row that the file
\* did not hold when main started) is still in the file.
C10_EarlierBatchesSurviveCrash ==
    pc = "crashed" =>
       \A r \in 2..Len(committed) :
          \A c \in 1..Len(committed[r]) :
             (/\ committed[r][c] # <<>>
              /\ ~HasCell(csv0, r, c) \/ csv0[r][c] # committed[r][c]) =>
                /\ HasCell(ResultFile, r, c)
                /\ ResultFile[r][c] = committed[r][c]

-----------------------------------------------------------------------------
(* Properties of the controller                                            *)

\* Was the operator asked whether to go on, as the last prompt of the batch?
AskedToContinue == prompted # <<>> /\ prompted[Len(prompted)].q = "continue"

\* Do the batches cut so far reach the end of the sentence list?
ListExhausted == Len(batches) * batch_size >= Len(indexed_sentences)

\* C11 (as stated): once a batch is over, before main dispatches the next
\* batch or ends, the operator has been asked whether to continue, after
\* the last batch too.
C11_PromptAfterEveryBatch ==
    (pc \in {"loop", "done"} /\ batches # <<>>) => AskedToContinue

\* C11 (amended): once a batch is over, the operator has been asked whether
\* to continue exactly when sentences are left after the batch; main then
\* goes on to the next batch exactly when the answer was y, and after the
\* last batch it ends without asking.
C11_PromptUnlessLastBatch ==
    (pc \in {"loop", "done"} /\ batches # <<>>) =>
       /\ AskedToContinue <=> ~ListExhausted
       /\ AskedToContinue => (prompted[Len(prompted)].yes <=> pc = "loop")
       /\ Cardinality({n \in 1..Len(prompted) : prompted[n].q = "continue"}) <= 1
       /\ (pc = "done" /\ ~AskedToContinue) => current_index >= Len(indexed_sentences)

\* C11 witness: main has ended after a second and last batch, at whose end
\* the operator was not asked anything.
C11_Witness ==
    /\ pc = "done"
    /\ Len(batches) = 2
    /\ ListExhausted
    /\ prompted = <<>>

\* The n-th smallest element of a set of numbers.
NthOf(S, n) == CHOOSE x \in S : Cardinality({y \in S : y < x}) = n - 1

\* Was the operator asked about the retry in this batch, and answered y?
RetryChosen == \E n \in 1..Len(prompted) : prompted[n] = Asked("retry", TRUE)

\* C12: when a batch has sentences without a result and the operator
\* answers y, the retry dispatch gets exactly those sentences, each once and
\* in batch order, and none that has a result; when the retry writes are
\* done, every result of the retry stands in the data row of its sentence's
\* index.
C12_RetrySendsFailedOnly ==
    (pc \in {"retry_write", "retry_flush", "ask_continue"} /\ RetryChosen) =>
       LET absent == {i \in 1..Len(CurrentBatch) : ~results[i].some}
           expected == [j \in 1..Cardinality(absent) |-> CurrentBatch[NthOf(absent, j)]]
       IN  /\ absent # {}
           /\ Len(dispatched) = 2
           /\ dispatched[1] = CurrentBatch
           /\ dispatched[2] = expected
           /\ \A a, b \in 1..Len(dispatched[2]) :
                 dispatched[2][a].idx = dispatched[2][b].idx => a = b
           /\ \A i \in 1..Len(CurrentBatch) :
                 results[i].some =>
                    \A j \in 1..Len(dispatched[2]) : dispatched[2][j].idx # CurrentBatch[i].idx
           /\ Len(retry_results) = Len(dispatched[2])
           /\ pc = "ask_continue" =>
                 \A j \in 1..Len(retry_results) :
                    retry_results[j].some =>
                       HoldsResult(ResultFile, dispatched[2][j].idx, retry_results[j])

\* C12 witness: a batch of two sentences with indices 2 and 3 (the first row
\* of the table was skipped); the first got a result, the second did not,
\* was retried alone and its retry result has been written.
C12_Witness ==
    /\ pc = "ask_continue"
    /\ RetryChosen
    /\ Len(CurrentBatch) = 2
    /\ CurrentBatch[1].idx = 2
    /\ Truthy(results[1])
    /\ Len(dispatched) = 2
    /\ Len(dispatched[2]) = 1
    /\ dispatched[2][1].idx = 3
    /\ Truthy(retry_results[1])

\* Has a sentence of the batch no result after the dispatch?
HasFailures == \E i \in 1..Len(results) : ~results[i].some

\* The prompts a batch has shown when it comes to the question of going on:
\* none (all sentences have a result), or the retry prompt with its answer.
BeforeContinue ==
    IF HasFailures THEN {<<Asked("retry", TRUE)>>, <<Asked("retry", FALSE)>>}
    ELSE {<<>>}

\* Where main is in the documented machine, told by the dispatches and the
\* prompts of the batch so far.
C13_OnMachinePath ==
    CASE pc = "loop" ->
            batches = <<>> \/ ListExhausted
            \/ (AskedToContinue /\ prompted[Len(prompted)].yes)
      [] pc \in {"write", "write_flush"} ->
            Len(dispatched) = 1 /\ prompted = <<>>
      [] pc = "ask_retry" ->
            Len(dispatched) = 1 /\ prompted = <<>> /\ HasFailures
      [] pc \in {"retry_write", "retry_flush"} ->
            Len(dispatched) = 2 /\ prompted = <<Asked("retry", TRUE)>>
      [] pc = "ask_continue" ->
            prompted \in BeforeContinue
      [] pc = "done" ->
            \/ current_index >= Len(indexed_sentences)
            \/ AskedToContinue /\ ~prompted[Len(prompted)].yes
      [] OTHER -> TRUE

\* C13: every run of main is a path of the documented machine: a batch has
\* one dispatch and at most one retry dispatch, which happens only after
\* failures and the answer y to the one retry prompt; main ends only when
\* the list is exhausted or the operator declined to continue, it ends at
\* once when the operator declines, and once it has ended no step that
\* dispatches, asks or writes is possible.
C13_RunIsMachinePath ==
    /\ C13_OnMachinePath
    /\ batches # <<>> =>
          /\ Len(dispatched) \in {1, 2}
          /\ dispatched[1] = batches[Len(batches)]
          /\ Len(dispatched) = 2 <=>
                (prompted # <<>> /\ prompted[1] = Asked("retry", TRUE))
          /\ Len(dispatched) = 2 => HasFailures
          /\ Cardinality({n \in 1..Len(prompted) : prompted[n].q = "retry"}) <= 1
          /\ \A n \in 1..Len(prompted) : prompted[n].q = "retry" => n = 1
          /\ AskedToContinue /\ ~prompted[Len(prompted)].yes => pc = "done"
    /\ pc = "done" => ~ENABLED MainNext

\* C13 witness: main has ended because the operator declined to continue,
\* after a batch whose retry dispatch left a sentence without a result.
C13_Witness ==
    /\ pc = "done"
    /\ current_index < Len(indexed_sentences)
    /\ AskedToContinue
    /\ Len(dispatched) = 2
    /\ \E j \in 1..Len(retry_results) : ~retry_results[j].some

-----------------------------------------------------------------------------
(* Properties of the worker pool                                           *)

\* The prompts being processed: started by a worker and not yet finished.
InProcess == {i \in 1..d_n : d_fut[i].st = "running"}

\* C14: in every state of a dispatch at most two prompts (the default width
\* of the pool) are being processed; every prompt being processed is the
\* one task of exactly one worker, and no prompt is processed before the
\* ones submitted ahead of it have been started.
C14_AtMostTwoInProcess ==
    d_pc = "pool" =>
       /\ Cardinality(InProcess) <= 2
       /\ \A i \in InProcess :
             Cardinality({w \in DOMAIN d_worker : d_worker[w] = i}) = 1
       /\ \A w \in DOMAIN d_worker : d_worker[w] # 0 => d_worker[w] \in InProcess
       /\ \A i \in InProcess : \A j \in 1..(i - 1) : d_fut[j].st # "queued"

\* C14 witness: three prompts, two being processed at once and the third
\* still queued.
C14_Witness ==
    /\ d_pc = "pool"
    /\ d_n = 3
    /\ Cardinality(InProcess) = 2
    /\ \E i \in 1..d_n : d_fut[i].st = "queued"

-----------------------------------------------------------------------------
(* Properties of the batching loop                                         *)

\* Did the operator decline to continue?
Declined == AskedToContinue /\ ~prompted[Len(prompted)].yes

\* C15: the k-th batch cut is the k-th slice of batch_size successive
\* sentences of the loaded list (fewer only at the end of the list),
\* whatever the calls returned and the operator answered about retries;
\* no sentence is in two batches; and when main has ended without the
\* operator declining, every loaded sentence is in exactly one batch and was
\* dispatched.
C15_BatchesPartitionList ==
    LET total == Len(indexed_sentences)
        first(k) == (k - 1) * batch_size
    IN  /\ \A k \in 1..Len(batches) :
              /\ first(k) < total
              /\ Len(batches[k]) = (IF first(k) + batch_size <= total
                                    THEN batch_size ELSE total - first(k))
              /\ \A a \in 1..Len(batches[k]) :
                    batches[k][a] = indexed_sentences[first(k) + a]
        /\ \A k, l \in 1..Len(batches) :
              \A a \in 1..Len(batches[k]), b \in 1..Len(batches[l]) :
                 batches[k][a].idx = batches[l][b].idx => (k = l /\ a = b)
        /\ (pc = "done" /\ ~Declined) =>
              /\ \A n \in 1..total :
                    Cardinality({ka \in (1..Len(batches)) \X (1..batch_size) :
                                    /\ ka[2] <= Len(batches[ka[1]])
                                    /\ batches[ka[1]][ka[2]] = indexed_sentences[n]}) = 1
              /\ attempted = {indexed_sentences[n].idx : n \in 1..total}

\* C15 witness: main has ended without the operator declining, after a
\* full batch and a last batch of one sentence, the first of them with a
\* retry.
C15_Witness ==
    /\ pc = "done"
    /\ ~Declined
    /\ Len(batches) = 2
    /\ Len(batches[1]) = batch_size
    /\ Len(batches[2]) = 1
    /\ succeeded # attempted

-----------------------------------------------------------------------------
(* Properties of split_result_lines                                        *)

\* The positions that bound the lines of a text: its newlines, and the
\* positions before its first and after its last character.
Cuts(text) == {0, Len(text) + 1} \cup {k \in 1..Len(text) : text[k] = NL}

\* The lines of a text: what stands between two successive bounds.
LinesOf(text) ==
    [n \in 1..(Cardinality(Cuts(text)) - 1) |->
        Slice(text, NthOf(Cuts(text), n) + 1, NthOf(Cuts(text), n + 1) - 1)]

\* A line without the white space around it: from its first to its last
\* character that is not white space.
Trimmed(line) ==
    LET ink == {k \in 1..Len(line) : line[k] \notin WhiteSpace}
    IN  IF ink = {} THEN <<>>
        ELSE SubSeq(line, NthOf(ink, 1), NthOf(ink, Cardinality(ink)))

\* The trimmed lines of a text that are not blank, in order.
Surviving(text) ==
    LET lines == LinesOf(text)
        kept == {n \in 1..Len(lines) : Trimmed(lines[n]) # <<>>}
    IN  [j \in 1..Cardinality(kept) |-> Trimmed(lines[NthOf(kept, j)])]

\* C16: split_result_lines returns as judgment the first trimmed non-blank
\* line of the text and as explanation the other trimmed non-blank lines
\* joined by newlines: the empty text when there is one line only, and a
\* text whose lines are exactly those lines otherwise; when no line
\* survives both are None.
C16_SplitResultLines ==
    f_call.op = "split_result_lines" =>
       LET lines == Surviving(f_call.text)
       IN  IF lines = <<>>
           THEN f_ret.judgment = None /\ f_ret.explanation = None
           ELSE /\ f_ret.judgment = Some(lines[1])
                /\ f_ret.explanation.some
                /\ IF Len(lines) = 1 THEN f_ret.explanation.text = <<>>
                   ELSE LinesOf(f_ret.explanation.text) = Tail(lines)

\* C16 witness: a text of three lines, the middle one blank, the last one
\* with white space to trim, split into a judgment and an explanation.
C16_Witness ==
    /\ f_call.op = "split_result_lines"
    /\ Len(LinesOf(f_call.text)) = 3
    /\ Len(Surviving(f_call.text)) = 2
    /\ f_ret.judgment.some
    /\ f_ret.explanation.text # <<>>

-----------------------------------------------------------------------------
(* Properties of load_sentences_from_csv                                   *)

\* The six recognized sentence terminators.
Recognized == {"zh_stop", ".", "zh_excl", "!", "zh_quest", "?"}

\* The first cell of data row r of the table the loader was called on.
FirstCell(r) == f_call.table[r + 1][1]

\* The normalized sentences the loader returned with index r.
LoadedFor(r) == {f_ret[n].sentence : n \in {m \in 1..Len(f_ret) : f_ret[m].idx = r}}

\* C17 (as stated): for every first cell that is not empty the loader
\* returns, under the row's index, the cell followed by the default
\* terminator when the cell does not end in a recognized terminator, and
\* the trimmed cell when it does.
C17_NormalizedFromOriginal ==
    f_call.op = "load_sentences_from_csv" =>
       \A r \in 1..(Len(f_call.table) - 1) :
          LET cell == FirstCell(r)
          IN  cell # <<>> =>
                 LoadedFor(r) = { IF cell[Len(cell)] \in Recognized
                                  THEN Trimmed(cell)
                                  ELSE cell \o <<"zh_stop">> }

\* C17 (amended): for every first cell that is not blank the loader returns,
\* under the row's index and once, the trimmed cell followed by the default
\* terminator when the trimmed cell does not end in a recognized
\* terminator, and the trimmed cell unchanged when it does; for a blank
\* cell it returns nothing.
C17_NormalizedFromTrimmed ==
    f_call.op = "load_sentences_from_csv" =>
       \A r \in 1..(Len(f_call.table) - 1) :
          LET trimmed == Trimmed(FirstCell(r))
          IN  IF trimmed = <<>> THEN LoadedFor(r) = {}
              ELSE /\ LoadedFor(r) = { IF trimmed[Len(trimmed)] \in Recognized
                                       THEN trimmed
                                       ELSE trimmed \o <<"zh_stop">> }
                   /\ Cardinality({n \in 1..Len(f_ret) : f_ret[n].idx = r}) = 1

\* C17 witness: a table read whose rows hold a cell with a leading space and
\* no terminator, a cell with a terminator followed by a space, and a cell
\* ending in an ASCII terminator; the loader returned three sentences.
C17_Witness ==
    /\ f_call.op = "load_sentences_from_csv"
    /\ Len(f_ret) = 3
    /\ \E a, b, c \in 1..(Len(f_call.table) - 1) :
          /\ FirstCell(a) = <<SP, "s">>
          /\ FirstCell(b) = <<"s", ".", SP>>
          /\ FirstCell(c) = <<"s", ".">>

\* C18: in ai_explain, whenever no write of the source table is under way,
\* loading the table yields the (index, sentence) sequence loaded when main
\* started, and the table has the data rows it had then, in the same order
\* and with the same first cells.
C18_IndicesStable ==
    (m_script = "ai_explain" /\ pending = <<>>) =>
       /\ load_sentences_from_csv(csv) = indexed_sentences
       /\ Len(csv) = Len(csv0)
       /\ \A r \in 2..Len(csv) : csv[r] # <<>> /\ csv[r][1] = csv0[r][1]

\* C18 witness: ai_explain has written the results of a batch and of its
\* retry into a table with a skipped row, and the table has changed.
C18_Witness ==
    /\ m_script = "ai_explain"
    /\ pc = "ask_continue"
    /\ pending = <<>>
    /\ Len(indexed_sentences) < Len(csv) - 1
    /\ \E i \in 1..Len(results) : Truthy(results[i])
    /\ \E j \in 1..Len(retry_results) : Truthy(retry_results[j])
    /\ csv # csv0

-----------------------------------------------------------------------------
(* Properties of build_prompts                                             *)

\* Does piece stand somewhere in text?
Contains(text, piece) ==
    \E p \in 1..(Len(text) - Len(piece) + 1) :
       SubSeq(text, p, p + Len(piece) - 1) = piece

\* Does the template hold the substitution placeholder, {} or {0}?
HasPlaceholder(template) ==
    Contains(template, <<"{", "}">>) \/ Contains(template, <<"{", "0", "}">>)

\* C19: build_prompts fails when the template holds no substitution
\* placeholder, and when it returns, it returns one prompt per sentence, in
\* order, each holding its sentence.
C19_BuildPromptsValidates ==
    f_call.op = "build_prompts" =>
       /\ ~HasPlaceholder(f_call.template) => f_ret.err # "none"
       /\ f_ret.err = "none" =>
             /\ Len(f_ret.prompts) = Len(f_call.indexed_sentences)
             /\ \A i \in 1..Len(f_ret.prompts) :
                   Contains(f_ret.prompts[i], f_call.indexed_sentences[i].sentence)

-----------------------------------------------------------------------------
(* Properties of the failure report                                        *)

\* C20: in ai_explain, once the first write of a batch has completed and
\* before any retry, every sentence of the batch either has its result in
\* the two result cells of the data row the write addresses for it, or is
\* in failed_indices, the list shown to the operator.
C20_EverySentenceAccounted ==
    (/\ m_script = "ai_explain"
     /\ pc \in {"ask_retry", "ask_continue"}
     /\ Len(dispatched) = 1) =>
       \A i \in 1..Len(CurrentBatch) :
          \/ results[i].some /\ HoldsResult(csv, current_index + i, results[i])
          \/ \E n \in 1..Len(FailedPositions(m_script, results)) :
                FailedPositions(m_script, results)[n] = i

-----------------------------------------------------------------------------
(* Properties of the cell assignments of ai_explain                        *)

\* The data rows (positions from 1) the pending write_results_to_csv of the
\* batch assigns cells in: data_rows[offset + i] for each truthy result.
FirstTargets ==
    {current_index + i : i \in {j \in 1..Len(results) : Truthy(results[j])}}

\* The data row the pending pass of the retry write loop assigns cells in.
RetryTarget ==
    FailedBatch(Batch(indexed_sentences, current_index),
                FailedPositions(m_script, results))[retry_i].idx

\* The header holds both target columns and the data row r of the table
\* has a cell at the position of each.
HasTargetCells(table, r) ==
    /\ r + 1 <= Len(table)
    /\ \A name \in {col_ai_panduan, col_ai_lijie} :
          /\ name \in Range(table[1])
          /\ IndexOf(table[1], name) <= Len(table[r + 1])

\* C21: in main of ai_explain every cell assignment is in range.  Before
\* write_results_to_csv the file has a data row for every result it writes,
\* the call raises nothing, and the rows it is about to write reach both
\* target columns of the header written with them.  Before a pass of the
\* retry write loop the header on file already holds both target columns
\* (the row is padded to that header before any column is appended), the
\* data row exists, the pass raises nothing, and the row it is about to
\* write reaches both target columns.
C21_AssignmentsInRange ==
    m_script = "ai_explain" =>
       /\ pc = "write" =>
             /\ \A r \in FirstTargets : r <= Len(csv) - 1
             /\ FirstPersist.err = "none"
       /\ pc = "write_flush" =>
             \A r \in FirstTargets :
                HasTargetCells(pending, r) /\ Len(pending[r + 1]) >= Len(pending[1])
       /\ pc = "retry_write" =>
             /\ RetryTarget <= Len(csv) - 1
             /\ {col_ai_panduan, col_ai_lijie} \subseteq Range(csv[1])
             /\ RetryPersist.err = "none"
       /\ pc = "retry_flush" =>
             /\ HasTargetCells(pending, RetryTarget)
             /\ Len(pending[RetryTarget + 1]) >= Len(pending[1])

\* C21 witness: a pass of the retry write loop is about to write a row that
\* was one cell wide in the input, under a header that had neither target
\* column in the input, in the second batch.
C21_Witness ==
    /\ m_script = "ai_explain"
    /\ pc = "retry_flush"
    /\ current_index > 0
    /\ col_ai_lijie \notin Range(csv0[1])
    /\ Len(csv0[RetryTarget + 1]) = 1
    /\ Len(pending[RetryTarget + 1]) = 3

-----------------------------------------------------------------------------
(* Termination of main                                                     *)

\* The sentences that are still to be taken into a batch.
Remaining ==
    IF current_index >= Len(indexed_sentences) THEN 0
    ELSE Len(indexed_sentences) - current_index

\* How far main is from the end of the batch it works on: one unit for
\* every step up to the continue prompt, two for every pass of the retry
\* write loop that is still to come.
ToBatchEnd ==
    CASE pc = "loop" -> 2 * batch_size + 7
      [] pc = "write" -> 2 * batch_size + 6
      [] pc = "write_flush" -> 2 * batch_size + 5
      [] pc = "ask_retry" -> 2 * batch_size + 4
      [] pc = "retry_write" -> 2 * (Len(retry_results) - retry_i) + 3
      [] pc = "retry_flush" -> 2 * (Len(retry_results) - retry_i) + 2
      [] pc = "ask_continue" -> 1
      [] OTHER -> 0

\* A bound on the steps main still takes: nothing once it has ended.
StepsLeft ==
    IF pc = "done" THEN 0
    ELSE Remaining * (2 * batch_size + 8) + ToBatchEnd

\* main has a next step: the loop condition holds or fails, a persist call
\* raises nothing, process_all_prompts returns for some outcomes of the
\* calls and the operator's answer is taken, whichever it is.
CanGoOn ==
    CASE pc = "loop" -> ENABLED (MainDispatch \/ MainExit)
      [] pc = "write" -> FirstPersist.err = "none"
      [] pc = "write_flush" -> ENABLED WriteClose
      [] pc = "ask_retry" -> (ENABLED AnswerRetry) /\ (ENABLED SkipRetry)
      [] pc = "retry_write" -> RetryPersist.err = "none"
      [] pc = "retry_flush" -> ENABLED RetryWriteClose
      [] pc = "ask_continue" ->
            IF MoreLeft(current_index, Len(indexed_sentences))
            THEN (ENABLED AnswerContinue) /\ (ENABLED AnswerStop)
            ELSE ENABLED LastBatchDone
      [] OTHER -> FALSE

\* C22: when every call returns or raises and the operator answers every
\* prompt, main reaches its end whatever the outcomes and the answers are:
\* every step of main lowers StepsLeft, a natural number, and main has a
\* next step in every state but its end, so that a run that keeps taking
\* its next step ends.  current_index changes only at the end of a batch
\* and then grows by batch_size, it is batch_size times the number of
\* batches taken whenever the loop condition is tested, at most
\* ceil(total / batch_size) batches are taken and at most two dispatches
\* are made for a batch.
C22_MainTerminates ==
    /\ [][StepsLeft' < StepsLeft /\ StepsLeft' >= 0]_vars
    /\ [](pc # "done" => CanGoOn)
    /\ [][current_index' # current_index =>
             /\ pc = "ask_continue"
             /\ current_index' = current_index + batch_size]_vars
    /\ [](pc = "loop" => current_index = Len(batches) * batch_size)
    /\ [](Len(batches) * batch_size < Len(indexed_sentences) + batch_size)
    /\ [](Len(dispatched) <= 2)

\* C22 witness: main has ended after ceil(total / batch_size) = 2 batches,
\* the list being exhausted, with a retry dispatched in the last batch.
C22_Witness ==
    /\ pc = "done"
    /\ Len(batches) = 2
    /\ Len(batches) * batch_size >= Len(indexed_sentences)
    /\ Len(dispatched) = 2

-----------------------------------------------------------------------------
(* Idempotence of the persist calls                                        *)

\* The number of header cells that hold name.
Occurrences(header, name) == Cardinality({k \in 1..Len(header) : header[k] = name})

\* The two columns a persist call writes to: the judgment and explanation
\* columns of ai_explain, the sentence and explanation columns of ai_yes_no.
TargetColumns ==
    IF w_call.op = "yes_no" THEN {col_yuanju, col_AI_lijie}
    ELSE {col_ai_panduan, col_ai_lijie}

\* The call of w_call made once more, on the file the first call left.
SecondApplication ==
    CASE w_call.op = "first" ->
            explain_write_results_to_csv(w_out.rows, w_call.results, w_call.offset)
      [] w_call.op = "retry" ->
            explain_retry_write(w_out.rows, w_call.idx, w_call.result)
      [] w_call.op = "yes_no" ->
            yes_no_persist(w_out.rows, w_call.indexed_results)

\* After a persist call and after the same call made a second time, the
\* header holds each of the call's two target columns exactly once.
C23_HeaderHoldsEachOnce ==
    (w_call.op \in {"first", "retry", "yes_no"} /\ w_out.err = "none") =>
       \A name \in TargetColumns :
          /\ Occurrences(w_out.rows[1], name) = 1
          /\ Occurrences(SecondApplication.rows[1], name) = 1

\* The same call made a second time completes and leaves the table the
\* first call wrote.
C23_SecondCallChangesNothing ==
    (w_call.op \in {"first", "retry", "yes_no"} /\ w_out.err = "none") =>
       SecondApplication = w_out

\* C23: persisting is idempotent: after a persist call, and after the same
\* call made again, the header holds each of the two target columns exactly
\* once, and the second call leaves the table as the first call wrote it.
C23_PersistIdempotent == C23_HeaderHoldsEachOnce /\ C23_SecondCallChangesNothing

====
